---- MODULE Spec2Model ----
(***************************************************************************)
(* A model of the pythoncourse data pipeline.                              *)
(*                                                                         *)
(*   day2/task3_sql.py        main, create_database, run_queries,          *)
(*                            plot_distributions,                          *)
(*                            plot_distributions_with_ibis                 *)
(*   day3/task1_regressions.py  get_order_vs_delivery_data                 *)
(*                                                                         *)
(* Identifiers are the strings of the extracts.  A missing cell is the     *)
(* string "NaN", which pandas.read_csv reads as a missing value; missing   *)
(* cells are modelled in the identifier columns.  A timestamp is a number  *)
(* of milliseconds after 2018-03-01 00:00:00.  Prices are whole numbers.   *)
(***************************************************************************)
EXTENDS Integers, Sequences, FiniteSets, TLC

VARIABLES
    csv,        \* the four source extracts read by create_database
    store,      \* the SQLite file ../../data/db.sqlite
    pc,         \* position of main() of task3_sql.py
    out,        \* the data frames the queries of the current run returned
    fault_at,   \* the step at which the current run raised, or "none"
    runs,       \* number of runs of main() started so far
    prev_end,   \* the store as the previous run of main() left it
    r_src,      \* the extracts read by get_order_vs_delivery_data
    r_df,       \* the data frame get_order_vs_delivery_data returned
    r_pc        \* position of task1_regressions

vars == <<csv, store, pc, out, fault_at, runs, prev_end, r_src, r_df, r_pc>>

sql_vars == <<csv, store, pc, out, fault_at, runs, prev_end>>

regr_vars == <<r_src, r_df, r_pc>>

-----------------------------------------------------------------------------
(* Bounds of the model *)

MaxRows == 2

MaxRuns == 2

-----------------------------------------------------------------------------
(* Cells, identifiers and their order *)

NaN == "NaN"

Sentinel == "-"

IdLength == 10

\* The identifier strings of the model in ascending (binary) string order,
\* the order in which groupby and SQLite's indexes sort them.
IdOrder ==
    << "-", "NaN",
       "O000000001", "O000000002", "O000000003", "O000000004",
       "O000000005", "O000000006", "O000000007", "O000000008", "O1",
       "P000000001", "P000000002", "P1",
       "S000000001", "S000000002",
       "U000000001", "U000000002", "U000000003", "U1" >>

Rank(id) == CHOOSE i \in 1..Len(IdOrder) : IdOrder[i] = id

\* lexicographic order on tuples of identifiers
RECURSIVE KeyLess(_, _)
KeyLess(a, b) ==
    IF Len(a) = 0 \/ Len(b) = 0 THEN Len(a) < Len(b)
    ELSE IF a[1] = b[1] THEN KeyLess(Tail(a), Tail(b))
    ELSE Rank(a[1]) < Rank(b[1])

\* the keys of a set in ascending order
RECURSIVE SortKeys(_)
SortKeys(S) ==
    IF S = {} THEN <<>>
    ELSE LET m == CHOOSE k \in S : \A j \in S \ {k} : KeyLess(k, j)
         IN <<m>> \o SortKeys(S \ {m})

\* the integers of a set in ascending order
RECURSIVE SortInts(_)
SortInts(S) ==
    IF S = {} THEN <<>>
    ELSE LET m == CHOOSE k \in S : \A j \in S : k <= j
         IN <<m>> \o SortInts(S \ {m})

RECURSIVE SumSeq(_)
SumSeq(s) == IF s = <<>> THEN 0 ELSE s[1] + SumSeq(Tail(s))

Range(s) == {s[i] : i \in DOMAIN s}

\* all sequences over S of length at most n
SeqsUpTo(S, n) == UNION {[1..k -> S] : k \in 0..n}

-----------------------------------------------------------------------------
(* The store: a file with up to four tables *)

NoTable == [exists |-> FALSE, rows |-> <<>>]

EmptyTable == [exists |-> TRUE, rows |-> <<>>]

AbsentStore ==
    [file |-> FALSE, orders |-> NoTable, delivery |-> NoTable,
     clicks |-> NoTable, users |-> NoTable]

\* sqlite3.connect on a path with no file: an empty database
FreshStore == [AbsentStore EXCEPT !.file = TRUE]

TableNames == {"orders", "delivery", "clicks", "users"}

Tables(s) == [n \in TableNames |-> s[n]]

-----------------------------------------------------------------------------
(* create_database: the loader *)

\* GroupBy.first(): the first non-missing entry of a column within a group
RECURSIVE FirstNonNull(_)
FirstNonNull(cells) ==
    IF cells = <<>> THEN NaN
    ELSE IF cells[1] # NaN THEN cells[1]
    ELSE FirstNonNull(Tail(cells))

\* orders[[...]].groupby(['order_ID', 'sku_ID'], as_index=False).first():
\* rows with a missing key are dropped, one row per key, keys ascending
OrdersFrame(src) ==
    LET keyed == SelectSeq(src, LAMBDA r : r.order_ID # NaN /\ r.sku_ID # NaN)
        keys == SortKeys({<<keyed[i].order_ID, keyed[i].sku_ID>> : i \in DOMAIN keyed})
        group(k) == SelectSeq(keyed, LAMBDA r : <<r.order_ID, r.sku_ID>> = k)
    IN [i \in 1..Len(keys) |->
          LET g == group(keys[i])
          IN [order_ID |-> keys[i][1],
              sku_ID |-> keys[i][2],
              user_ID |-> FirstNonNull([j \in 1..Len(g) |-> g[j].user_ID]),
              order_time |-> g[1].order_time,
              quantity |-> g[1].quantity,
              final_unit_price |-> g[1].final_unit_price]]

\* users[['user_ID', 'plus']].groupby(['user_ID'], as_index=False).first()
UsersFrame(src) ==
    LET keyed == SelectSeq(src, LAMBDA r : r.user_ID # NaN)
        keys == SortKeys({<<keyed[i].user_ID>> : i \in DOMAIN keyed})
        group(k) == SelectSeq(keyed, LAMBDA r : <<r.user_ID>> = k)
    IN [i \in 1..Len(keys) |->
          [user_ID |-> keys[i][1], plus |-> group(keys[i])[1].plus]]

\* delivery[['order_ID', 'package_ID', 'ship_out_time']]
DeliveryFrame(src) ==
    [i \in 1..Len(src) |->
        [order_ID |-> src[i].order_ID, package_ID |-> src[i].package_ID,
         ship_out_time |-> src[i].ship_out_time]]

\* ClicksFrame with the repeats of a row dropped as well, as the keyed
\* tables are loaded
ClicksFrame_dedup(src) ==
    LET kept == SelectSeq(src, LAMBDA r : r.user_ID # Sentinel)
        first == SortInts({i \in DOMAIN kept : \A j \in 1..(i - 1) : kept[j] # kept[i]})
    IN [k \in 1..Len(first) |->
          [user_ID |-> kept[first[k]].user_ID, sku_ID |-> kept[first[k]].sku_ID,
           request_time |-> kept[first[k]].request_time]]

\* clicks[clicks['user_ID'] != '-'][['user_ID', 'sku_ID', 'request_time']]
ClicksFrame(src) ==
    LET kept == SelectSeq(src, LAMBDA r : r.user_ID # Sentinel)
    IN [i \in 1..Len(kept) |->
          [user_ID |-> kept[i].user_ID, sku_ID |-> kept[i].sku_ID,
           request_time |-> kept[i].request_time]]

\* TEXT NOT NULL CHECK(LENGTH(x) = 10)
IdOk(x) == x # NaN /\ Len(x) = IdLength

OrderKey(r) == <<r.order_ID, r.sku_ID>>

DeliveryKey(r) == <<r.order_ID, r.package_ID>>

UserKey(r) == <<r.user_ID>>

\* the primary key of a row of the table
PrimaryKey(name, r) ==
    CASE name = "orders" -> OrderKey(r)
      [] name = "delivery" -> DeliveryKey(r)
      [] name = "users" -> UserKey(r)

\* no two rows of the sequence share a primary key
UniqueKeys(name, rows) ==
    \A i, j \in DOMAIN rows :
        PrimaryKey(name, rows[i]) = PrimaryKey(name, rows[j]) => i = j

OrdersAccepts(rows) ==
    /\ \A i \in DOMAIN rows : IdOk(rows[i].order_ID) /\ IdOk(rows[i].sku_ID)
                              /\ IdOk(rows[i].user_ID)
    /\ UniqueKeys("orders", rows)

DeliveryAccepts(rows) ==
    /\ \A i \in DOMAIN rows : IdOk(rows[i].order_ID) /\ IdOk(rows[i].package_ID)
    /\ UniqueKeys("delivery", rows)

ClicksAccepts(rows) ==
    \A i \in DOMAIN rows : IdOk(rows[i].user_ID) /\ IdOk(rows[i].sku_ID)

UsersAccepts(rows) ==
    /\ \A i \in DOMAIN rows : IdOk(rows[i].user_ID) /\ rows[i].plus \in {0, 1}
    /\ UniqueKeys("users", rows)

Accepts(name, rows) ==
    CASE name = "orders" -> OrdersAccepts(rows)
      [] name = "delivery" -> DeliveryAccepts(rows)
      [] name = "clicks" -> ClicksAccepts(rows)
      [] name = "users" -> UsersAccepts(rows)

Frame(name, src) ==
    CASE name = "orders" -> OrdersFrame(src.orders)
      [] name = "delivery" -> DeliveryFrame(src.delivery)
      [] name = "clicks" -> ClicksFrame(src.clicks)
      [] name = "users" -> UsersFrame(src.users)

\* LoadTable with the refusal caught: the step never raises
LoadTable_swallow(s, name, src) ==
    IF s[name].exists THEN [store |-> s, raised |-> FALSE]
    ELSE LET rows == EmptyTable.rows \o Frame(name, src)
         IN IF Accepts(name, rows)
            THEN [store |-> [s EXCEPT ![name] = [exists |-> TRUE, rows |-> rows]],
                  raised |-> FALSE]
            ELSE [store |-> [s EXCEPT ![name] = EmptyTable], raised |-> FALSE]

\* CREATE TABLE fails when the table exists; to_sql(if_exists='append')
\* inserts every row in one transaction, rolled back when a row is refused.
\* The result is the store and whether the step raised.
LoadTable(s, name, src) ==
    IF s[name].exists THEN [store |-> s, raised |-> TRUE]
    ELSE LET rows == EmptyTable.rows \o Frame(name, src)
         IN IF Accepts(name, rows)
            THEN [store |-> [s EXCEPT ![name] = [exists |-> TRUE, rows |-> rows]],
                  raised |-> FALSE]
            ELSE [store |-> [s EXCEPT ![name] = EmptyTable], raised |-> TRUE]

LoadOrder == <<"orders", "delivery", "clicks", "users">>

\* create_database as a whole, from store s: the tables are loaded in order
\* until one raises
RECURSIVE LoadFrom(_, _, _)
LoadFrom(s, src, k) ==
    IF k > Len(LoadOrder) THEN [store |-> s, raised |-> FALSE]
    ELSE LET r == LoadTable(s, LoadOrder[k], src)
         IN IF r.raised THEN r ELSE LoadFrom(r.store, src, k + 1)

create_database(s, src) == LoadFrom(s, src, 1)

-----------------------------------------------------------------------------
(* Timestamps *)

\* JULIANDAY(t) is the double nearest to the Julian day number of t.  For
\* dates of this era a double holds a day number in steps of 2^-31 day, and
\* three hours are 2^28 steps.  JulianSteps(r) is the number of steps for
\* r milliseconds, r below three hours: r * 2^31 / 86400000 rounded to
\* nearest, computed in 32-bit pieces (86400000 = 2^10 * 84375).
JulianSteps(r) ==
    LET a == r \div 84375
        b == r % 84375
        c == (b * 1024) \div 84375
        d == (b * 1024) % 84375
        q == (d * 2048) \div 84375
        m == (d * 2048) % 84375
    IN a * 2097152 + c * 2048 + q + (IF 2 * m > 84375 THEN 1 ELSE 0)

\* JULIANDAY(t) as whole three-hour chunks plus steps of 2^-31 day
JULIANDAY(t) ==
    [chunk |-> t \div 10800000, steps |-> JulianSteps(t % 10800000)]

\* ROUND((JULIANDAY(later) - JULIANDAY(earlier)) * 24): the difference of the
\* two doubles and its product with 24 are exact; ROUND adds or subtracts
\* one half and truncates toward zero.
JulianHours(later, earlier) ==
    LET h3 == 3 * (JULIANDAY(later).chunk - JULIANDAY(earlier).chunk)
        g == JULIANDAY(later).steps - JULIANDAY(earlier).steps
        negative == h3 < 0 \/ (h3 = 0 /\ g < 0)
    IN IF negative
       THEN h3 - ((134217728 - 3 * g) \div 268435456)
       ELSE h3 + ((3 * g + 134217728) \div 268435456)

\* epoch_seconds(): strftime('%s', t) as an integer, whole seconds
epoch_seconds(t) == t \div 1000

\* ((later.epoch_seconds() - earlier.epoch_seconds()) / 3600).round()
EpochHours(later, earlier) ==
    LET n == epoch_seconds(later) - epoch_seconds(earlier)
    IN IF n < 0 THEN 0 - ((1800 - n) \div 3600) ELSE (n + 1800) \div 3600

-----------------------------------------------------------------------------
(* The queries *)

NotRun == [state |-> "not_run", rows |-> <<>>]

Raised == [state |-> "fault", rows |-> <<>>]

Returned(rows) == [state |-> "ok", rows |-> rows]

\* SegmentCounts answering a missing table with no rows
SegmentCounts_lenient(s) ==
    LET u == s.users.rows
        groups == SortInts({u[i].plus : i \in DOMAIN u})
    IN Returned([g \in 1..Len(groups) |->
           [num_users |-> Cardinality({i \in DOMAIN u : u[i].plus = groups[g]})]])

\* SELECT COUNT(*) num_users FROM JD_user_data GROUP BY plus
SegmentCounts(s) ==
    IF ~s.users.exists THEN Raised
    ELSE LET u == s.users.rows
             groups == SortInts({u[i].plus : i \in DOMAIN u})
         IN Returned([g \in 1..Len(groups) |->
                [num_users |-> Cardinality({i \in DOMAIN u : u[i].plus = groups[g]})]])

\* SELECT SUM(quantity * final_unit_price) order_value, user_ID, order_ID
\* FROM JD_order_data GROUP BY order_ID: one row per order in index order;
\* the bare user_ID is that of the order's first row in the primary key index
OrderTotals(o) ==
    LET ids == SortKeys({<<o[i].order_ID>> : i \in DOMAIN o})
        skus(id) == SortKeys({<<o[i].sku_ID>> : i \in {j \in DOMAIN o : o[j].order_ID = id}})
        row(id, sku) == o[CHOOSE i \in DOMAIN o : o[i].order_ID = id /\ o[i].sku_ID = sku]
    IN [k \in 1..Len(ids) |->
          LET id == ids[k][1]
              sk == skus(id)
          IN [order_value |->
                  SumSeq([n \in 1..Len(sk) |->
                      row(id, sk[n][1]).quantity * row(id, sk[n][1]).final_unit_price]),
              user_ID |-> row(id, sk[1][1]).user_ID,
              order_ID |-> id]]

\* OrderByValueDesc without the ORDER BY: the rows stay in group order
OrderByValueDesc_unsorted(t) == t

\* ORDER BY order_value DESC: rows of equal value keep their order
RECURSIVE OrderByValueDesc(_)
OrderByValueDesc(t) ==
    IF t = <<>> THEN <<>>
    ELSE LET top == CHOOSE i \in DOMAIN t :
                        /\ \A j \in DOMAIN t : t[j].order_value <= t[i].order_value
                        /\ \A j \in 1..(i - 1) : t[j].order_value < t[i].order_value
         IN <<t[top]>> \o OrderByValueDesc(SubSeq(t, 1, top - 1) \o SubSeq(t, top + 1, Len(t)))

TopN == 5

\* LIMIT 5
Limit(t, n) == SubSeq(t, 1, IF Len(t) < n THEN Len(t) ELSE n)

\* the top orders query
OrderValues(s) ==
    IF ~s.orders.exists THEN Raised
    ELSE Returned(Limit(OrderByValueDesc(OrderTotals(s.orders.rows)), TopN))

\* AverageOrderValues without the GROUP BY order_ID: the mean over sku rows
AverageOrderValues_per_row(s) ==
    IF ~s.orders.exists \/ ~s.users.exists THEN Raised
    ELSE LET o == s.orders.rows
             u == s.users.rows
             joined == {<<i, j>> \in (DOMAIN o) \X (DOMAIN u) : u[j].user_ID = o[i].user_ID}
             groups == SortInts({u[p[2]].plus : p \in joined})
             members(g) == SortInts({p[1] : p \in {x \in joined : u[x[2]].plus = g}})
         IN Returned([g \in 1..Len(groups) |->
                LET m == members(groups[g])
                IN [average_order_value |->
                      [num |-> SumSeq([n \in 1..Len(m) |->
                                  o[m[n]].quantity * o[m[n]].final_unit_price]),
                       den |-> Len(m)]]])

\* the average order value query; AVG is the pair num / den
AverageOrderValues(s) ==
    IF ~s.orders.exists \/ ~s.users.exists THEN Raised
    ELSE LET t2 == OrderTotals(s.orders.rows)
             u == s.users.rows
             joined == {<<i, j>> \in (DOMAIN t2) \X (DOMAIN u) : u[j].user_ID = t2[i].user_ID}
             groups == SortInts({u[p[2]].plus : p \in joined})
             members(g) == SortInts({p[1] : p \in {x \in joined : u[x[2]].plus = g}})
         IN Returned([g \in 1..Len(groups) |->
                LET m == members(groups[g])
                IN [average_order_value |->
                      [num |-> SumSeq([n \in 1..Len(m) |-> t2[m[n]].order_value]),
                       den |-> Len(m)]]])

\* JD_click_data c INNER JOIN JD_order_data o ON c.sku_ID = o.sku_ID AND
\* c.user_ID = o.user_ID INNER JOIN JD_delivery_data d ON o.order_ID = d.order_ID
FunnelJoin(s) ==
    LET c == s.clicks.rows
        o == s.orders.rows
        d == s.delivery.rows
    IN {t \in (DOMAIN c) \X (DOMAIN o) \X (DOMAIN d) :
           /\ c[t[1]].sku_ID = o[t[2]].sku_ID
           /\ c[t[1]].user_ID = o[t[2]].user_ID
           /\ o[t[2]].order_ID = d[t[3]].order_ID}

FunnelTablesExist(s) == s.clicks.exists /\ s.orders.exists /\ s.delivery.exists

\* Histogram without the WHERE clause
Histogram_unbounded(hours) ==
    LET buckets == SortInts({hours[t] : t \in DOMAIN hours})
    IN [b \in 1..Len(buckets) |->
          [hours |-> buckets[b],
           count |-> Cardinality({t \in DOMAIN hours : hours[t] = buckets[b]})]]

\* WHERE hours BETWEEN 0 AND 24 GROUP BY hours, with COUNT(*); hours holds
\* the hours column of each row of the join
Histogram(hours) ==
    LET kept == {t \in DOMAIN hours : 0 <= hours[t] /\ hours[t] <= 24}
        buckets == SortInts({hours[t] : t \in kept})
    IN [b \in 1..Len(buckets) |->
          [hours |-> buckets[b],
           count |-> Cardinality({t \in kept : hours[t] = buckets[b]})]]

ClickToOrder(s) ==
    IF ~FunnelTablesExist(s) THEN Raised
    ELSE Returned(Histogram([t \in FunnelJoin(s) |->
            JulianHours(s.orders.rows[t[2]].order_time,
                        s.clicks.rows[t[1]].request_time)]))

ClickToShip(s) ==
    IF ~FunnelTablesExist(s) THEN Raised
    ELSE Returned(Histogram([t \in FunnelJoin(s) |->
            JulianHours(s.delivery.rows[t[3]].ship_out_time,
                        s.clicks.rows[t[1]].request_time)]))

IbisClickToOrder(s) ==
    IF ~FunnelTablesExist(s) THEN Raised
    ELSE Returned(Histogram([t \in FunnelJoin(s) |->
            EpochHours(s.orders.rows[t[2]].order_time,
                        s.clicks.rows[t[1]].request_time)]))

IbisClickToShip(s) ==
    IF ~FunnelTablesExist(s) THEN Raised
    ELSE Returned(Histogram([t \in FunnelJoin(s) |->
            EpochHours(s.delivery.rows[t[3]].ship_out_time,
                        s.clicks.rows[t[1]].request_time)]))

\* DataFrame.plot() raises TypeError on a frame with no rows
Plottable(frame) == frame.state = "ok" /\ frame.rows # <<>>

NoOutput ==
    [plus_v_nonplus_users |-> NotRun, order_values |-> NotRun,
     plus_v_nonplus_ordervals |-> NotRun, click_to_order |-> NotRun,
     click_to_ship |-> NotRun, click_to_order_data |-> NotRun,
     click_to_ship_data |-> NotRun]

\* a function runs its queries in order and stops at the first that raises
RECURSIVE RunInOrder(_, _, _)
RunInOrder(o, names, frames) ==
    IF names = <<>> THEN [out |-> o, raised |-> FALSE]
    ELSE LET o1 == [o EXCEPT ![names[1]] = frames[1]]
         IN IF frames[1].state = "fault" THEN [out |-> o1, raised |-> TRUE]
            ELSE RunInOrder(o1, Tail(names), Tail(frames))

run_queries(s, o) ==
    RunInOrder(o, <<"plus_v_nonplus_users", "order_values", "plus_v_nonplus_ordervals">>,
               <<SegmentCounts(s), OrderValues(s), AverageOrderValues(s)>>)

plot_distributions(s, o) ==
    LET r == RunInOrder(o, <<"click_to_order", "click_to_ship">>,
                        <<ClickToOrder(s), ClickToShip(s)>>)
    IN [r EXCEPT !.raised = r.raised \/ ~Plottable(r.out.click_to_order)
                            \/ ~Plottable(r.out.click_to_ship)]

plot_distributions_with_ibis(s, o) ==
    LET r == RunInOrder(o, <<"click_to_order_data", "click_to_ship_data">>,
                        <<IbisClickToOrder(s), IbisClickToShip(s)>>)
    IN [r EXCEPT !.raised = r.raised \/ ~Plottable(r.out.click_to_order_data)
                            \/ ~Plottable(r.out.click_to_ship_data)]

-----------------------------------------------------------------------------
(* main() of task3_sql.py *)

\* the step raised: the exception leaves main(), nothing later runs
Abort(step) == pc' = "aborted" /\ fault_at' = step

\* Unlink without the unlink: the file at db_path is opened as it is
Unlink_keep(s) == [s EXCEPT !.file = TRUE]

\* db_path.unlink(missing_ok=True); sqlite3.connect(db_path)
Unlink(s) == FreshStore

main_start ==
    /\ pc \in {"idle", "done", "aborted"}
    /\ runs < MaxRuns
    /\ runs' = runs + 1
    /\ prev_end' = store
    /\ store' = Unlink(store)
    /\ out' = NoOutput
    /\ fault_at' = "none"
    /\ pc' = "create_orders"
    /\ UNCHANGED <<csv, regr_vars>>

\* one table of create_database, loaded at position here
LoadStep(name, here, next) ==
    LET r == LoadTable(store, name, csv)
    IN /\ store' = r.store
       /\ IF r.raised THEN Abort(here)
          ELSE pc' = next /\ fault_at' = fault_at

create_orders ==
    /\ pc = "create_orders"
    /\ LoadStep("orders", "create_orders", "create_delivery")
    /\ UNCHANGED <<csv, out, runs, prev_end, regr_vars>>

create_delivery ==
    /\ pc = "create_delivery"
    /\ LoadStep("delivery", "create_delivery", "create_clicks")
    /\ UNCHANGED <<csv, out, runs, prev_end, regr_vars>>

create_clicks ==
    /\ pc = "create_clicks"
    /\ LoadStep("clicks", "create_clicks", "create_users")
    /\ UNCHANGED <<csv, out, runs, prev_end, regr_vars>>

create_users ==
    /\ pc = "create_users"
    /\ LoadStep("users", "create_users", "run_queries")
    /\ UNCHANGED <<csv, out, runs, prev_end, regr_vars>>

\* a query function called by main at position here
QueryStep(r, here, next) ==
    /\ out' = r.out
    /\ IF r.raised THEN Abort(here)
       ELSE pc' = next /\ fault_at' = fault_at

main_run_queries ==
    /\ pc = "run_queries"
    /\ QueryStep(run_queries(store, out), "run_queries", "plot_distributions")
    /\ UNCHANGED <<csv, store, runs, prev_end, regr_vars>>

main_plot_distributions ==
    /\ pc = "plot_distributions"
    /\ QueryStep(plot_distributions(store, out), "plot_distributions",
                 "plot_distributions_with_ibis")
    /\ UNCHANGED <<csv, store, runs, prev_end, regr_vars>>

main_plot_distributions_with_ibis ==
    /\ pc = "plot_distributions_with_ibis"
    /\ QueryStep(plot_distributions_with_ibis(store, out),
                 "plot_distributions_with_ibis", "done")
    /\ UNCHANGED <<csv, store, runs, prev_end, regr_vars>>

Next ==
    \/ main_start
    \/ create_orders
    \/ create_delivery
    \/ create_clicks
    \/ create_users
    \/ main_run_queries
    \/ main_plot_distributions
    \/ main_plot_distributions_with_ibis

-----------------------------------------------------------------------------
(* Source extracts of the loader runs *)

LoadOrderRows ==
    [order_ID : {"O000000001", "O000000002", "O1"}, sku_ID : {"S000000001"},
     user_ID : {"U000000001", "U000000002", NaN}, order_time : {1800000},
     quantity : {1, 2}, final_unit_price : {10}]

LoadDeliveryRows ==
    [order_ID : {"O000000001", NaN}, package_ID : {"P000000001", "P000000002", "P1"},
     ship_out_time : {9000000}]

LoadClickRows ==
    [user_ID : {"U000000001", "U000000002", Sentinel, NaN}, sku_ID : {"S000000001"},
     request_time : {0, 900}]

LoadUserRows ==
    [user_ID : {"U000000001", "U000000002", NaN, "U1"}, plus : {0, 1, 2}]

GoodOrders ==
    << [order_ID |-> "O000000001", sku_ID |-> "S000000001", user_ID |-> "U000000001",
        order_time |-> 1800000, quantity |-> 1, final_unit_price |-> 10] >>

GoodDelivery ==
    << [order_ID |-> "O000000001", package_ID |-> "P000000001", ship_out_time |-> 9000000] >>

GoodClicks ==
    << [user_ID |-> "U000000001", sku_ID |-> "S000000001", request_time |-> 0] >>

GoodUsers == << [user_ID |-> "U000000001", plus |-> 1] >>

GoodSources ==
    [orders |-> GoodOrders, delivery |-> GoodDelivery, clicks |-> GoodClicks,
     users |-> GoodUsers]

\* one extract varies over every sequence of at most MaxRows rows, the other
\* three are the good ones
LoadSources ==
    {[GoodSources EXCEPT !.orders = x] : x \in SeqsUpTo(LoadOrderRows, MaxRows)}
    \cup {[GoodSources EXCEPT !.delivery = x] : x \in SeqsUpTo(LoadDeliveryRows, MaxRows)}
    \cup {[GoodSources EXCEPT !.clicks = x] : x \in SeqsUpTo(LoadClickRows, MaxRows)}
    \cup {[GoodSources EXCEPT !.users = x] : x \in SeqsUpTo(LoadUserRows, MaxRows)}

\* what an earlier run on other extracts may have left at db_path: nothing,
\* a complete store, or the store of a run that raised while loading
PriorStores ==
    { AbsentStore,
      create_database(FreshStore,
          [GoodSources EXCEPT !.users = << [user_ID |-> "U000000002", plus |-> 0] >>]).store,
      create_database(FreshStore,
          [GoodSources EXCEPT !.delivery = GoodDelivery \o GoodDelivery]).store }

RegrIdle ==
    /\ r_src = [orders |-> <<>>, delivery |-> <<>>]
    /\ r_df = <<>>
    /\ r_pc = "idle"

Init ==
    /\ csv \in LoadSources
    /\ store \in PriorStores
    /\ pc = "idle"
    /\ out = NoOutput
    /\ fault_at = "none"
    /\ runs = 0
    /\ prev_end = AbsentStore
    /\ RegrIdle

Spec == Init /\ [][Next]_vars

-----------------------------------------------------------------------------
(* The query functions called on a store, outside main() *)

call_run_queries ==
    /\ out' = run_queries(store, out).out
    /\ UNCHANGED <<csv, store, pc, fault_at, runs, prev_end, regr_vars>>

call_plot_distributions ==
    /\ out' = plot_distributions(store, out).out
    /\ UNCHANGED <<csv, store, pc, fault_at, runs, prev_end, regr_vars>>

call_plot_distributions_with_ibis ==
    /\ out' = plot_distributions_with_ibis(store, out).out
    /\ UNCHANGED <<csv, store, pc, fault_at, runs, prev_end, regr_vars>>

NextCalls ==
    \/ call_run_queries
    \/ call_plot_distributions
    \/ call_plot_distributions_with_ibis

\* the store is what create_database builds from the extracts
CallsInit(sources) ==
    /\ csv \in sources
    /\ store \in {create_database(FreshStore, csv).store}
    /\ pc = "idle"
    /\ out = NoOutput
    /\ fault_at = "none"
    /\ runs = 0
    /\ prev_end = AbsentStore
    /\ RegrIdle

\* a store on which create_database has not run, or has run to its end or
\* to the step that raised
InitCalls ==
    /\ csv \in LoadSources
    /\ store \in {FreshStore, create_database(FreshStore, csv).store}
    /\ pc = "idle"
    /\ out = NoOutput
    /\ fault_at = "none"
    /\ runs = 0
    /\ prev_end = AbsentStore
    /\ RegrIdle

SpecCalls == InitCalls /\ [][NextCalls]_vars

-----------------------------------------------------------------------------
(* Order tables for the value queries *)

NumOrders == 6

NumAvgOrders == 3

OrderIdPool ==
    << "O000000001", "O000000002", "O000000003", "O000000004",
       "O000000005", "O000000006", "O000000007", "O000000008" >>

\* what a key of the orders extract may hold: no row, or one of three rows
OrderVariants ==
    { [present |-> FALSE, user_ID |-> "U000000001", quantity |-> 1, final_unit_price |-> 10],
      [present |-> TRUE, user_ID |-> "U000000001", quantity |-> 1, final_unit_price |-> 10],
      [present |-> TRUE, user_ID |-> "U000000001", quantity |-> 2, final_unit_price |-> 5],
      [present |-> TRUE, user_ID |-> "U000000002", quantity |-> 1, final_unit_price |-> 100] }

\* the keys (O1,S1), (O1,S2), (O2,S1), ..., (On,S1) in ascending order
OrderKeys(n) ==
    [i \in 1..(n + 1) |->
        IF i = 1 THEN <<OrderIdPool[1], "S000000001">>
        ELSE IF i = 2 THEN <<OrderIdPool[1], "S000000002">>
        ELSE <<OrderIdPool[i - 1], "S000000001">>]

RECURSIVE OrderRowsOf(_, _, _)
OrderRowsOf(keys, f, i) ==
    IF i > Len(keys) THEN <<>>
    ELSE (IF f[i].present
          THEN << [order_ID |-> keys[i][1], sku_ID |-> keys[i][2], user_ID |-> f[i].user_ID,
                   order_time |-> 1800000, quantity |-> f[i].quantity,
                   final_unit_price |-> f[i].final_unit_price] >>
          ELSE <<>>) \o OrderRowsOf(keys, f, i + 1)

\* the first three keys take every variant, the later ones all but one
VariantsAt(i) ==
    IF i <= 3 THEN OrderVariants
    ELSE {v \in OrderVariants : ~(v.present /\ v.quantity = 1 /\ v.final_unit_price = 10)}

OrderExtracts(n) ==
    {OrderRowsOf(OrderKeys(n), f, 1) :
        f \in {g \in [1..(n + 1) -> OrderVariants] : \A i \in 1..(n + 1) : g[i] \in VariantsAt(i)}}

UserOptions(id) ==
    {<<>>, << [user_ID |-> id, plus |-> 0] >>, << [user_ID |-> id, plus |-> 1] >>}

UserExtracts == {a \o b : a \in UserOptions("U000000001"), b \in UserOptions("U000000002")}

TopSources ==
    {[GoodSources EXCEPT !.orders = x,
                         !.users = << [user_ID |-> "U000000001", plus |-> 0],
                                      [user_ID |-> "U000000002", plus |-> 1] >>] :
        x \in OrderExtracts(NumOrders)}

InitTop == CallsInit(TopSources)

SpecTop == InitTop /\ [][NextCalls]_vars

\* an order of a user that has no row in the users extract
UnmatchedOrder ==
    {<<>>,
     << [order_ID |-> OrderIdPool[8], sku_ID |-> "S000000001", user_ID |-> "U000000003",
         order_time |-> 1800000, quantity |-> 3, final_unit_price |-> 7] >>}

AvgSources ==
    {[GoodSources EXCEPT !.orders = x \o y, !.users = u] :
        x \in OrderExtracts(NumAvgOrders), y \in UnmatchedOrder, u \in UserExtracts}

InitAvg == CallsInit(AvgSources)

SpecAvg == InitAvg /\ [][NextCalls]_vars

-----------------------------------------------------------------------------
(* Tables for the funnel queries *)

MaxClicks == 2

FunnelClickRows ==
    [user_ID : {"U000000001"}, sku_ID : {"S000000001"},
     request_time : {0, 900, 10800000}]

FunnelOrder(id, user, t) ==
    << [order_ID |-> id, sku_ID |-> "S000000001", user_ID |-> user, order_time |-> t,
        quantity |-> 1, final_unit_price |-> 10] >>

FunnelOrderExtracts ==
    {a \o b :
        a \in {<<>>} \cup {FunnelOrder("O000000001", "U000000001", t) :
                              t \in {1800000, 9000000, 86400000, 88200000}}
                     \cup {FunnelOrder("O000000001", "U000000002", 1800000)},
        b \in {<<>>, FunnelOrder("O000000002", "U000000001", 9000000)}}

FunnelPackage(id, pkg, t) ==
    << [order_ID |-> id, package_ID |-> pkg, ship_out_time |-> t] >>

FunnelDeliveryExtracts ==
    {a \o b \o c :
        a \in {<<>>} \cup {FunnelPackage("O000000001", "P000000001", t) :
                              t \in {9000000, 88200000}},
        b \in {<<>>, FunnelPackage("O000000001", "P000000002", 19800000)},
        c \in {<<>>, FunnelPackage("O000000002", "P000000001", 9000000)}}

FunnelSources ==
    {[GoodSources EXCEPT !.clicks = c, !.orders = o, !.delivery = d] :
        c \in SeqsUpTo(FunnelClickRows, MaxClicks),
        o \in FunnelOrderExtracts,
        d \in FunnelDeliveryExtracts}

InitFunnel == CallsInit(FunnelSources)

SpecFunnel == InitFunnel /\ [][NextCalls]_vars

-----------------------------------------------------------------------------
(* task1_regressions.py: get_order_vs_delivery_data *)

\* a quotient kept exact
Frac(n, d) == [num |-> n, den |-> d]

FracLess(a, b) == a.num * b.den < b.num * a.den

\* (x.arr_time - x.order_time).total_seconds() / 3600
DeliveryTime(x) == Frac(x.arr_time - x.order_time, 3600000)

\* x.order_time.hour + x.order_time.minute / 60
OrderTimeOfDay(x) ==
    Frac((((x.order_time \div 3600000) % 24) * 60) + ((x.order_time \div 60000) % 60), 60)

\* drop_duplicates(subset=['order_ID', 'order_time']): the first row of each pair
DropDuplicateOrders(rows) ==
    LET first(i) == \A j \in 1..(i - 1) :
                        ~(rows[j].order_ID = rows[i].order_ID
                          /\ rows[j].order_time = rows[i].order_time)
        keep == SortInts({i \in DOMAIN rows : first(i)})
    IN [k \in 1..Len(keep) |-> rows[keep[k]]]

\* orders.merge(delivery, on='order_ID'): the pairs with equal order_ID, in
\* the order of the left rows
RECURSIVE Merge(_, _)
Merge(left, right) ==
    IF left = <<>> THEN <<>>
    ELSE LET l == left[1]
             hits == SelectSeq(right, LAMBDA r : r.order_ID = l.order_ID)
         IN [k \in 1..Len(hits) |->
                [order_ID |-> l.order_ID, order_time |-> l.order_time,
                 promise |-> l.promise, package_ID |-> hits[k].package_ID,
                 arr_time |-> hits[k].arr_time]]
            \o Merge(Tail(left), right)

\* df.sort_values('delivery_time'): ascending, rows with equal delivery_time
\* in the order they had
RECURSIVE SortByDeliveryTime(_)
SortByDeliveryTime(df) ==
    IF df = <<>> THEN <<>>
    ELSE LET i == CHOOSE a \in DOMAIN df :
                     /\ \A b \in DOMAIN df : ~FracLess(df[b].delivery_time, df[a].delivery_time)
                     /\ \A b \in 1..(a - 1) : FracLess(df[a].delivery_time, df[b].delivery_time)
         IN <<df[i]>> \o
            SortByDeliveryTime([k \in 1..(Len(df) - 1) |-> IF k < i THEN df[k] ELSE df[k + 1]])

\* drop_duplicates('order_ID', keep='last'): of each order_ID the last row,
\* the rows kept staying in their order
DropDuplicatesKeepLast(df) ==
    LET last(i) == \A j \in (i + 1)..Len(df) : df[j].order_ID # df[i].order_ID
        keep == SortInts({i \in DOMAIN df : last(i)})
    IN [k \in 1..Len(keep) |-> df[keep[k]]]

\* df.sort_values('delivery_time').drop_duplicates('order_ID', keep='last')
KeepLastDelivery(df) == DropDuplicatesKeepLast(SortByDeliveryTime(df))

\* what get_order_vs_delivery_data hands back: a frame, or a ValueError
FrameReturned(df) == [df |-> df, raised |-> FALSE]

ValueError == [df |-> <<>>, raised |-> TRUE]

MaxDeliveryHours == 72

\* a csv cell that read_csv parses as an integer
IsNumericCell(cell) == cell \in {"0", "1", "2", "3", "4", "5", "6", "7", "8", "9"}

\* pd.read_csv types the promise column from its cells: int64 when every
\* cell is numeric, object (the cells as strings) as soon as one is not.
\* The extract is read as one chunk, so the column has one type.
ReadOrdersCsv(rows) ==
    LET dtype == IF \A i \in DOMAIN rows : IsNumericCell(rows[i].promise)
                 THEN "int64" ELSE "object"
    IN [i \in DOMAIN rows |->
          [order_ID |-> rows[i].order_ID, order_time |-> rows[i].order_time,
           promise |-> [dtype |-> dtype, cell |-> rows[i].promise]]]

\* orders['promise'] == '1': an integer never equals the string '1'
PromiseIsSameDay(r) == r.promise.dtype = "object" /\ r.promise.cell = "1"

get_order_vs_delivery_data(src) ==
    LET orders == DropDuplicateOrders(SelectSeq(ReadOrdersCsv(src.orders), PromiseIsSameDay))
        merged == Merge(orders, src.delivery)
        timed == [i \in 1..Len(merged) |->
                     [order_ID |-> merged[i].order_ID, order_time |-> merged[i].order_time,
                      promise |-> merged[i].promise, package_ID |-> merged[i].package_ID,
                      arr_time |-> merged[i].arr_time,
                      delivery_time |-> DeliveryTime(merged[i])]]
        \* line 32 computes this frame and does not assign it
        last_deliveries == KeepLastDelivery(timed)
        df == timed
        within == SelectSeq(df, LAMBDA x :
                      /\ ~FracLess(Frac(MaxDeliveryHours, 1), x.delivery_time)
                      /\ FracLess(Frac(0, 1), x.delivery_time))
    IN \* df.apply(..., axis=1) on a frame with no rows gives a frame, not a
       \* column, and the assignment of lines 31 and 38 raises ValueError
       IF merged = <<>> \/ within = <<>> THEN ValueError
       ELSE FrameReturned(
              [i \in 1..Len(within) |->
                 [order_ID |-> within[i].order_ID, order_time |-> within[i].order_time,
                  promise |-> within[i].promise, package_ID |-> within[i].package_ID,
                  arr_time |-> within[i].arr_time, delivery_time |-> within[i].delivery_time,
                  order_time_of_day |-> OrderTimeOfDay(within[i])]])

\* df = get_order_vs_delivery_data(); an exception leaves main with no frame
regressions_main ==
    /\ r_pc = "idle"
    /\ LET r == get_order_vs_delivery_data(r_src)
       IN /\ r_df' = r.df
          /\ r_pc' = IF r.raised THEN "aborted" ELSE "done"
    /\ UNCHANGED <<r_src, sql_vars>>

NextRegr == regressions_main

MaxRegrRows == 2

RegrOrderRows ==
    [order_ID : {"O000000001", "O000000002"}, order_time : {0, 34200000},
     promise : {"1", "2", "-"}]

RegrDeliveryRows ==
    [order_ID : {"O000000001"}, package_ID : {"P000000001", "P000000002"},
     arr_time : {36000000, 72000000, 288000000}]

InitRegr ==
    /\ csv = GoodSources
    /\ store = AbsentStore
    /\ pc = "idle"
    /\ out = NoOutput
    /\ fault_at = "none"
    /\ runs = 0
    /\ prev_end = AbsentStore
    /\ r_src \in [orders : SeqsUpTo(RegrOrderRows, MaxRegrRows),
                  delivery : SeqsUpTo(RegrDeliveryRows, MaxRegrRows)]
    /\ r_df = <<>>
    /\ r_pc = "idle"

SpecRegr == InitRegr /\ [][NextRegr]_vars

-----------------------------------------------------------------------------
(* Properties of the loader and of main() *)

StepIndex(p) ==
    CASE p = "create_orders" -> 1
      [] p = "create_delivery" -> 2
      [] p = "create_clicks" -> 3
      [] p = "create_users" -> 4
      [] p = "run_queries" -> 5
      [] p = "plot_distributions" -> 6
      [] p = "plot_distributions_with_ibis" -> 7
      [] p = "done" -> 8

\* step k of the current run has been taken (it returned or it raised)
Executed(k) ==
    /\ pc # "idle"
    /\ IF pc = "aborted" THEN StepIndex(fault_at) >= k ELSE StepIndex(pc) > k

\* step k of the current run has returned
StepReturned(k) ==
    /\ pc # "idle"
    /\ IF pc = "aborted" THEN StepIndex(fault_at) > k ELSE StepIndex(pc) > k

Count(rows, r) == Cardinality({i \in DOMAIN rows : rows[i] = r})

\* the first row of the extract with key k
FirstWithKey(name, src, k) ==
    src[CHOOSE i \in DOMAIN src :
            /\ PrimaryKey(name, src[i]) = k
            /\ \A j \in 1..(i - 1) : PrimaryKey(name, src[j]) # k]

KeyPresent(k) == \A n \in DOMAIN k : k[n] # NaN

\* C1 as stated: once the orders (users) table is loaded, every key of the
\* extract has exactly one row in the table, and that row is the first row
\* of the extract with the key, column by column.
C1_FirstRowIsInserted ==
    /\ StepReturned(1) =>
         \A k \in {OrderKey(csv.orders[i]) : i \in DOMAIN csv.orders} :
             KeyPresent(k) =>
                /\ Cardinality({i \in DOMAIN store.orders.rows :
                                   OrderKey(store.orders.rows[i]) = k}) = 1
                /\ Count(store.orders.rows, FirstWithKey("orders", csv.orders, k)) = 1
    /\ StepReturned(4) =>
         \A k \in {UserKey(csv.users[i]) : i \in DOMAIN csv.users} :
             KeyPresent(k) =>
                /\ Cardinality({i \in DOMAIN store.users.rows :
                                   UserKey(store.users.rows[i]) = k}) = 1
                /\ Count(store.users.rows, FirstWithKey("users", csv.users, k)) = 1

\* a CHECK(LENGTH(x) = 10) that fails
CheckFails(x) == x # NaN /\ Len(x) # 10

\* two rows with the same primary key
KeyClash(name, rows) ==
    \E i, j \in DOMAIN rows :
        i # j /\ PrimaryKey(name, rows[i]) = PrimaryKey(name, rows[j])

\* a row that step k inserts violates a primary key or a CHECK constraint
ViolationAt(k) ==
    CASE k = 1 ->
           LET f == OrdersFrame(csv.orders)
           IN \/ KeyClash("orders", f)
              \/ \E i \in DOMAIN f : CheckFails(f[i].order_ID) \/ CheckFails(f[i].sku_ID)
                                     \/ CheckFails(f[i].user_ID)
      [] k = 2 ->
           \/ KeyClash("delivery", csv.delivery)
           \/ \E i \in DOMAIN csv.delivery :
                 CheckFails(csv.delivery[i].order_ID) \/ CheckFails(csv.delivery[i].package_ID)
      [] k = 3 ->
           \E i \in DOMAIN csv.clicks :
              /\ csv.clicks[i].user_ID # Sentinel
              /\ CheckFails(csv.clicks[i].user_ID) \/ CheckFails(csv.clicks[i].sku_ID)
      [] k = 4 ->
           LET f == UsersFrame(csv.users)
           IN \/ KeyClash("users", f)
              \/ \E i \in DOMAIN f : CheckFails(f[i].user_ID) \/ f[i].plus \notin {0, 1}

\* C6: when a row inserted by a step of the loader violates a primary key
\* or a CHECK constraint, the run is aborted at that step: no later table
\* exists, and no query of run_queries, plot_distributions or
\* plot_distributions_with_ibis has been executed.
C6_ViolationAbortsRun ==
    \A k \in 1..4 :
        (Executed(k) /\ ViolationAt(k)) =>
            /\ pc = "aborted"
            /\ StepIndex(fault_at) = k
            /\ \A j \in (k + 1)..4 : ~store[LoadOrder[j]].exists
            /\ out = NoOutput

C6_Witness ==
    /\ pc = "aborted"
    /\ fault_at = "create_delivery"
    /\ KeyClash("delivery", csv.delivery)
    /\ store.orders.rows # <<>>

RunEnded == runs > 0 /\ pc \in {"done", "aborted"}

\* C7: at the end of a run the four tables hold what a build from the
\* extracts on an empty store holds, whatever the store held before the
\* run, and a second run in succession leaves the tables of the first.
C7_RebuildIsIdempotent ==
    RunEnded =>
        /\ Tables(store) = Tables(create_database(FreshStore, csv).store)
        /\ runs >= 2 => Tables(store) = Tables(prev_end)

C7_Witness ==
    /\ RunEnded
    /\ runs = 1
    /\ prev_end.users.exists
    /\ Tables(prev_end) # Tables(store)
    /\ store.users.rows # <<>>

\* C9: once the clicks table is loaded it holds no row whose user_ID is
\* "-", it holds every other row of the extract as often as the extract
\* does, and no row of the funnel join comes from a "-" click.
C9_SentinelClicksDropped ==
    StepReturned(3) =>
        /\ \A i \in DOMAIN store.clicks.rows : store.clicks.rows[i].user_ID # Sentinel
        /\ \A i \in DOMAIN csv.clicks :
              csv.clicks[i].user_ID # Sentinel =>
                 Count(store.clicks.rows, csv.clicks[i]) = Count(csv.clicks, csv.clicks[i])
        /\ Len(store.clicks.rows)
              = Cardinality({i \in DOMAIN csv.clicks : csv.clicks[i].user_ID # Sentinel})
        /\ \A t \in FunnelJoin(store) : store.clicks.rows[t[1]].user_ID # Sentinel

C9_Witness ==
    /\ pc = "done"
    /\ \E i \in DOMAIN csv.clicks : csv.clicks[i].user_ID = Sentinel
    /\ Len(store.clicks.rows) = 1

-----------------------------------------------------------------------------
(* Properties of the queries *)

\* quantity * final_unit_price summed over the rows of o with index in I
RECURSIVE RowValueSum(_, _)
RowValueSum(o, I) ==
    IF I = {} THEN 0
    ELSE LET i == CHOOSE x \in I : TRUE
         IN o[i].quantity * o[i].final_unit_price + RowValueSum(o, I \ {i})

OrderIdsOf(o) == {o[i].order_ID : i \in DOMAIN o}

\* the value of an order: the sum over all its rows
OrderValue(o, id) == RowValueSum(o, {i \in DOMAIN o : o[i].order_ID = id})

\* the rows (O1,S1,U1,1,10.0), (O1,S2,U1,2,5.0), (O2,S1,U2,1,100.0)
IsExampleOrders(o) ==
    /\ Len(o) = 3
    /\ <<o[1].order_ID, o[1].sku_ID, o[1].user_ID, o[1].quantity, o[1].final_unit_price>>
          = <<"O000000001", "S000000001", "U000000001", 1, 10>>
    /\ <<o[2].order_ID, o[2].sku_ID, o[2].user_ID, o[2].quantity, o[2].final_unit_price>>
          = <<"O000000001", "S000000002", "U000000001", 2, 5>>
    /\ <<o[3].order_ID, o[3].sku_ID, o[3].user_ID, o[3].quantity, o[3].final_unit_price>>
          = <<"O000000002", "S000000001", "U000000002", 1, 100>>

\* C2: the top orders query returns at most 5 rows, one per order, each
\* with the order's summed value, in non-increasing order of value, and no
\* order left out is worth more than an order returned; on the three
\* example rows it returns O2 (100) and then O1 (20).
C2_TopOrdersByValue ==
    out.order_values.state = "ok" =>
        LET o == store.orders.rows
            t == out.order_values.rows
            got == {t[i].order_ID : i \in DOMAIN t}
        IN /\ Len(t) <= 5
           /\ \A i, j \in DOMAIN t : t[i].order_ID = t[j].order_ID => i = j
           /\ \A i \in DOMAIN t :
                 /\ t[i].order_ID \in OrderIdsOf(o)
                 /\ t[i].order_value = OrderValue(o, t[i].order_ID)
           /\ \A i, j \in DOMAIN t : i < j => t[i].order_value >= t[j].order_value
           /\ \A id \in OrderIdsOf(o) \ got :
                 /\ Len(t) = 5
                 /\ \A i \in DOMAIN t : OrderValue(o, id) <= t[i].order_value
           /\ IsExampleOrders(o) =>
                 /\ Len(t) = 2
                 /\ <<t[1].order_ID, t[1].order_value>> = <<"O000000002", 100>>
                 /\ <<t[2].order_ID, t[2].order_value>> = <<"O000000001", 20>>

\* more than five orders, of more than one value, one of them left out
C2_Witness ==
    /\ out.order_values.state = "ok"
    /\ Len(out.order_values.rows) = 5
    /\ Cardinality(OrderIdsOf(store.orders.rows)) > 5
    /\ out.order_values.rows[1].order_value > out.order_values.rows[5].order_value
    /\ \E i \in DOMAIN store.orders.rows :
          store.orders.rows[i].sku_ID = "S000000002"

\* the user of an order: the user_ID of its first row in key order
OrderUser(o, id) ==
    LET mine == {i \in DOMAIN o : o[i].order_ID = id}
    IN o[CHOOSE i \in mine : \A j \in mine : ~KeyLess(<<o[j].sku_ID>>, <<o[i].sku_ID>>)].user_ID

RECURSIVE OrderValueSum(_, _)
OrderValueSum(o, ids) ==
    IF ids = {} THEN 0
    ELSE LET id == CHOOSE x \in ids : TRUE
         IN OrderValue(o, id) + OrderValueSum(o, ids \ {id})

\* the orders whose user has a User row with plus = p
SegmentOrders(o, u, p) ==
    {id \in OrderIdsOf(o) :
        \E j \in DOMAIN u : u[j].user_ID = OrderUser(o, id) /\ u[j].plus = p}

\* C8: the average order value query returns one row for each plus value
\* that has an order of a user with a User row, in ascending order of plus,
\* holding the mean of the values of those orders; an order whose user has
\* no User row is in no group, and every other order is in exactly one.
C8_AverageBySegment ==
    out.plus_v_nonplus_ordervals.state = "ok" =>
        LET o == store.orders.rows
            u == store.users.rows
            t == out.plus_v_nonplus_ordervals.rows
            segs == SortInts({p \in {0, 1} : SegmentOrders(o, u, p) # {}})
        IN /\ Len(t) = Len(segs)
           /\ \A g \in DOMAIN t :
                 /\ t[g].average_order_value.den = Cardinality(SegmentOrders(o, u, segs[g]))
                 /\ t[g].average_order_value.num = OrderValueSum(o, SegmentOrders(o, u, segs[g]))
           /\ SegmentOrders(o, u, 0) \cap SegmentOrders(o, u, 1) = {}
           /\ SumSeq([g \in DOMAIN t |-> t[g].average_order_value.den])
                 = Cardinality({id \in OrderIdsOf(o) :
                       \E j \in DOMAIN u : u[j].user_ID = OrderUser(o, id)})

\* both segments have orders, one of them two; one order has two rows and
\* one order has no user row
C8_Witness ==
    /\ out.plus_v_nonplus_ordervals.state = "ok"
    /\ Len(out.plus_v_nonplus_ordervals.rows) = 2
    /\ \E i \in DOMAIN out.plus_v_nonplus_ordervals.rows :
          out.plus_v_nonplus_ordervals.rows[i].average_order_value.den = 2
    /\ \E i, j \in DOMAIN store.orders.rows :
          i # j /\ store.orders.rows[i].order_ID = store.orders.rows[j].order_ID
    /\ \E i \in DOMAIN store.orders.rows :
          \A j \in DOMAIN store.users.rows :
              store.users.rows[j].user_ID # store.orders.rows[i].user_ID

HistogramOk(frame, joinsize) ==
    frame.state = "ok" =>
        /\ \A b \in DOMAIN frame.rows : frame.rows[b].hours \in 0..24
        /\ \A a, b \in DOMAIN frame.rows : frame.rows[a].hours = frame.rows[b].hours => a = b
        /\ SumSeq([b \in DOMAIN frame.rows |-> frame.rows[b].count]) <= joinsize

\* C3: both histograms of plot_distributions hold only whole hours from 0
\* to 24, each hour at most once, and their counts sum to at most the
\* number of rows of the Click-Order-Delivery join.
C3_HistogramBuckets ==
    /\ HistogramOk(out.click_to_order, Cardinality(FunnelJoin(store)))
    /\ HistogramOk(out.click_to_ship, Cardinality(FunnelJoin(store)))

\* a histogram with the bucket 24 that leaves a row of the join out
C3_Witness ==
    /\ out.click_to_order.state = "ok"
    /\ out.click_to_ship.state = "ok"
    /\ \E b \in DOMAIN out.click_to_order.rows : out.click_to_order.rows[b].hours = 24
    /\ SumSeq([b \in DOMAIN out.click_to_order.rows |-> out.click_to_order.rows[b].count])
          < Cardinality(FunnelJoin(store))
    /\ \E b \in DOMAIN out.click_to_ship.rows : out.click_to_ship.rows[b].count > 1

\* C10 as stated: the histograms of plot_distributions_with_ibis are those
\* of plot_distributions, bucket by bucket.
C10_IbisSameHistograms ==
    /\ (out.click_to_order.state = "ok" /\ out.click_to_order_data.state = "ok")
          => out.click_to_order_data.rows = out.click_to_order.rows
    /\ (out.click_to_ship.state = "ok" /\ out.click_to_ship_data.state = "ok")
          => out.click_to_ship_data.rows = out.click_to_ship.rows

SqlFrames ==
    {"plus_v_nonplus_users", "order_values", "plus_v_nonplus_ordervals",
     "click_to_order", "click_to_ship"}

\* the tables a query reads
Reads(q) ==
    CASE q = "plus_v_nonplus_users" -> {"users"}
      [] q = "order_values" -> {"orders"}
      [] q = "plus_v_nonplus_ordervals" -> {"orders", "users"}
      [] q = "click_to_order" -> {"clicks", "orders", "delivery"}
      [] q = "click_to_ship" -> {"clicks", "orders", "delivery"}

\* C5 as stated: a query run on a store in which a table it reads is empty
\* or missing returns a result with no rows, and no fault.
C5_EmptyOrMissingGivesNoRows ==
    \A q \in SqlFrames :
        (/\ out[q].state # "not_run"
         /\ \E n \in Reads(q) : ~store[n].exists \/ store[n].rows = <<>>)
            => out[q] = Returned(<<>>)

\* C5, amended: a query run on a store in which every table it reads
\* exists and one of them is empty returns a result with no rows and no
\* fault; run on a store in which a table it reads is missing it raises.
C5_EmptyGivesNoRowsMissingRaises ==
    \A q \in SqlFrames :
        out[q].state # "not_run" =>
            IF \E n \in Reads(q) : ~store[n].exists
            THEN out[q].state = "fault"
            ELSE /\ out[q].state = "ok"
                 /\ (\E n \in Reads(q) : store[n].rows = <<>>) => out[q].rows = <<>>

\* a store left by a run that raised while loading the clicks
C5_Witness ==
    /\ out.plus_v_nonplus_users.state = "fault"
    /\ ~store.users.exists
    /\ store.clicks.exists
    /\ store.orders.rows # <<>>
    /\ out.click_to_order = Returned(<<>>)

\* C4 as stated: the frame get_order_vs_delivery_data returns has at most
\* one row per order_ID, and the row of an order holds the delivery time of
\* the order's last-arriving package.
C4_OneRowPerOrder ==
    r_pc = "done" =>
        /\ \A i, j \in DOMAIN r_df : r_df[i].order_ID = r_df[j].order_ID => i = j
        /\ \A i \in DOMAIN r_df :
              \A k \in DOMAIN r_src.delivery :
                  r_src.delivery[k].order_ID = r_df[i].order_ID
                     => r_src.delivery[k].arr_time <= r_df[i].arr_time

====
